---------------------------- MODULE Spec2Model ----------------------------
(* Daily sales report pipeline: load -> clean -> aggregate -> export,     *)
(* orchestrated by generate_sales_report (src/report_generator.py).       *)
(* A DataFrame is a record [columns, index, rows]: the set of column      *)
(* names, the surviving original row labels, and the rows (functions from *)
(* column name to cell).  A cell read from the CSV file is a string, the  *)
(* empty string being a missing value.                                    *)
EXTENDS Integers, Sequences, FiniteSets, TLC

\* Largest number of data rows in the source file.
MaxRows == 2

\* head(5) of the product ranking.
HeadN == 5

NA == ""

\* ------------------------------------------------------------------------
\* Cell conversions (pandas), by what they do to the literals of the model.

NaN == [nan |-> TRUE, v |-> 0]
NaT == <<0, 0, 0>>

DateLiterals ==
  [s \in {"2024-01-01", "2024-01-02"} |->
     IF s = "2024-01-01" THEN <<2024, 1, 1>> ELSE <<2024, 1, 2>>]

NumLiterals ==
  [s \in {"0", "1", "2", "3"} |->
     CASE s = "0" -> 0 [] s = "1" -> 1 [] s = "2" -> 2 [] s = "3" -> 3]

\* pd.to_datetime(x, errors='coerce') on one cell.
ToDatetime(s) == IF s \in DOMAIN DateLiterals THEN DateLiterals[s] ELSE NaT

\* pd.to_numeric(x, errors='coerce') on one cell.
ToNumeric(s) ==
  IF s \in DOMAIN NumLiterals THEN [nan |-> FALSE, v |-> NumLiterals[s]] ELSE NaN

\* Series.fillna(0) on one coerced cell.
FillnaZero(x) == IF x.nan THEN 0 ELSE x.v

\* Series.fillna('Unknown') on one cell.
FillnaUnknown(s) == IF s = NA THEN "Unknown" ELSE s

\* ------------------------------------------------------------------------
\* DataFrames.

EmptyDataFrame == [columns |-> {}, index |-> <<>>, rows |-> <<>>]

\* DataFrame.empty: some axis has length 0.
IsEmpty(df) == Len(df.rows) = 0 \/ df.columns = {}

RECURSIVE SelectIdx(_, _, _)
\* The positions p of 1..n, in order, with Keep[p].
SelectIdx(n, Keep, p) ==
  IF p > n THEN <<>>
  ELSE (IF Keep[p] THEN <<p>> ELSE <<>>) \o SelectIdx(n, Keep, p + 1)

\* The DataFrame restricted to the rows at the given positions.
TakeRows(df, pos) ==
  [columns |-> df.columns,
   index   |-> [k \in 1..Len(pos) |-> df.index[pos[k]]],
   rows    |-> [k \in 1..Len(pos) |-> df.rows[pos[k]]]]

\* df[col] as a sequence of cells.
Column(df, col) == [k \in 1..Len(df.rows) |-> df.rows[k][col]]

\* df[col] = values
SetColumn(df, col, values) ==
  [df EXCEPT !.rows =
     [k \in 1..Len(df.rows) |-> [df.rows[k] EXCEPT ![col] = values[k]]]]

\* ------------------------------------------------------------------------
\* clean_and_process_data

numeric_cols == <<"Quantity", "UnitPrice", "TotalPrice">>
categorical_cols == <<"ProductName", "Category", "Region", "SalespersonID">>

\* Mutant: the rows with an unparseable Date are kept.
DropnaDate_KeepAll(df) == df

\* Mutant: dropna() without subset, a row with any missing cell is dropped.
DropnaDate_AnyColumn(df) ==
  TakeRows(df, SelectIdx(Len(df.rows),
                         [p \in 1..Len(df.rows) |->
                            /\ df.rows[p]["Date"] # NaT
                            /\ \A c \in df.columns \ {"Date"} : df.rows[p][c] # NA], 1))

\* df.dropna(subset=['Date'], inplace=True)
DropnaDate(df) ==
  TakeRows(df, SelectIdx(Len(df.rows),
                         [p \in 1..Len(df.rows) |-> df.rows[p]["Date"] # NaT], 1))

\* Lines 49-55: the Date branch.
CleanDate(df) ==
  IF "Date" \in df.columns
  THEN DropnaDate(SetColumn(df, "Date",
         [k \in 1..Len(df.rows) |-> ToDatetime(Column(df, "Date")[k])]))
  ELSE df

\* to_numeric followed by fillna(0) on one cell (lines 61-63; the inplace
\* fillna on df[col] writes through to df, as it does before pandas 3).
CoerceNumeric(s) == FillnaZero(ToNumeric(s))

RECURSIVE CleanNumeric(_, _)
\* Lines 58-66: the loop over numeric_cols, from position i on.
CleanNumeric(df, i) ==
  IF i > Len(numeric_cols) THEN df
  ELSE CleanNumeric(IF numeric_cols[i] \in df.columns
                    THEN SetColumn(df, numeric_cols[i],
                           [k \in 1..Len(df.rows) |->
                              CoerceNumeric(Column(df, numeric_cols[i])[k])])
                    ELSE df, i + 1)

RECURSIVE CleanCategorical(_, _)
\* Lines 69-75: the loop over categorical_cols, from position i on.
CleanCategorical(df, i) ==
  IF i > Len(categorical_cols) THEN df
  ELSE CleanCategorical(IF categorical_cols[i] \in df.columns
                        THEN SetColumn(df, categorical_cols[i],
                               [k \in 1..Len(df.rows) |->
                                  FillnaUnknown(Column(df, categorical_cols[i])[k])])
                        ELSE df, i + 1)

clean_and_process_data(df) ==
  IF IsEmpty(df) THEN df
  ELSE CleanCategorical(CleanNumeric(CleanDate(df), 1), 1)

\* ------------------------------------------------------------------------
\* aggregate_sales_data

RECURSIVE SumSeq(_)
SumSeq(s) == IF s = <<>> THEN 0 ELSE Head(s) + SumSeq(Tail(s))

\* df[col].sum()
SumColumn(df, col) == SumSeq(Column(df, col))

\* df[col].nunique(): distinct values, missing ones not counted.
Nunique(df, col) ==
  Cardinality({df.rows[k][col] : k \in 1..Len(df.rows)} \ {NA})

\* Mutant: the division without its guard.
AvgTransactionValue_Unguarded(total_revenue, num_transactions) ==
  [num |-> total_revenue, den |-> num_transactions]

\* total_revenue / num_transactions if num_transactions > 0 else 0,
\* the quotient kept as a fraction.
AvgTransactionValue(total_revenue, num_transactions) ==
  IF num_transactions > 0
  THEN [num |-> total_revenue, den |-> num_transactions]
  ELSE [num |-> 0, den |-> 1]

\* Lexicographic order of the labels of the model, as groupby sorts its keys.
LabelOrder == <<"A", "B", "C", "Unknown">>

\* groupby(col)['TotalPrice'].sum().reset_index(), renamed: one row per key
\* in key order, rows with a missing key left out.
GroupBySum(df, col) ==
  LET present == [p \in 1..Len(LabelOrder) |->
                    \E k \in 1..Len(df.rows) : df.rows[k][col] = LabelOrder[p]]
      keys    == SelectIdx(Len(LabelOrder), present, 1)
      members(label) ==
        SelectIdx(Len(df.rows),
                  [k \in 1..Len(df.rows) |-> df.rows[k][col] = label], 1)
  IN  [g \in 1..Len(keys) |->
         [key     |-> LabelOrder[keys[g]],
          revenue |-> SumColumn(TakeRows(df, members(LabelOrder[keys[g]])),
                                "TotalPrice")]]

RECURSIVE InsertDesc(_, _)
\* r placed in the descending sequence s after the rows that are not smaller.
InsertDesc(s, r) ==
  IF s = <<>> THEN <<r>>
  ELSE IF Head(s).revenue >= r.revenue THEN <<Head(s)>> \o InsertDesc(Tail(s), r)
  ELSE <<r>> \o s

RECURSIVE SortValuesDesc(_)
\* sort_values(by='Total Revenue', ascending=False); equal revenues keep
\* their key order.
SortValuesDesc(s) ==
  IF s = <<>> THEN <<>>
  ELSE InsertDesc(SortValuesDesc(SubSeq(s, 1, Len(s) - 1)), s[Len(s)])

\* DataFrame.head(n)
HeadRows(s, n) == SubSeq(s, 1, IF Len(s) < n THEN Len(s) ELSE n)

\* Lines 89-91 read three columns without a presence check: the first one
\* that is absent (a KeyError), or NA when all are there.
MissingSummaryColumn(df) ==
  IF "TotalPrice" \notin df.columns THEN "TotalPrice"
  ELSE IF "Quantity" \notin df.columns THEN "Quantity"
  ELSE IF "TransactionID" \notin df.columns THEN "TransactionID"
  ELSE NA

SummaryReport(df) ==
  LET total_revenue    == SumColumn(df, "TotalPrice")
      total_quantity   == SumColumn(df, "Quantity")
      num_transactions == Nunique(df, "TransactionID")
  IN  [name             |-> "Summary",
       total_revenue    |-> total_revenue,
       total_quantity   |-> total_quantity,
       num_transactions |-> num_transactions,
       avg_transaction_value |->
         AvgTransactionValue(total_revenue, num_transactions)]

CategoryReport(df) ==
  IF "Category" \in df.columns
  THEN <<[name |-> "Sales by Category",
          table |-> SortValuesDesc(GroupBySum(df, "Category"))]>>
  ELSE <<>>

RegionReport(df) ==
  IF "Region" \in df.columns
  THEN <<[name |-> "Sales by Region",
          table |-> SortValuesDesc(GroupBySum(df, "Region"))]>>
  ELSE <<>>

TopProductsReport(df) ==
  IF "ProductName" \in df.columns /\ "TotalPrice" \in df.columns
  THEN <<[name |-> "Top 5 Products",
          table |-> HeadRows(SortValuesDesc(GroupBySum(df, "ProductName")), HeadN)]>>
  ELSE <<>>

\* The call's result: [raised |-> NA, reports |-> the report set in insertion
\* order], or [raised |-> "KeyError", ...] when a Summary column is absent.
aggregate_sales_data(df) ==
  IF IsEmpty(df) THEN [raised |-> NA, reports |-> <<>>]
  ELSE IF MissingSummaryColumn(df) # NA
  THEN [raised |-> "KeyError", reports |-> <<>>]
  ELSE [raised |-> NA,
        reports |-> <<SummaryReport(df)>> \o CategoryReport(df)
                      \o RegionReport(df) \o TopProductsReport(df)]

\* ------------------------------------------------------------------------
\* Exceptions and log records.

Info(m)    == [level |-> "INFO", msg |-> m]
Warning(m) == [level |-> "WARNING", msg |-> m]
Error(m)   == [level |-> "ERROR", msg |-> m]

\* The classes of the exception types of the model (type and its bases).
Bases(e) ==
  CASE e = "FileNotFoundError" -> {"FileNotFoundError", "OSError", "Exception"}
    [] e = "PermissionError"   -> {"PermissionError", "OSError", "Exception"}
    [] e = "EmptyDataError"    -> {"EmptyDataError", "ValueError", "Exception"}
    [] e = "ParserError"       -> {"ParserError", "ValueError", "Exception"}
    [] e = "KeyError"          -> {"KeyError", "LookupError", "Exception"}
    [] OTHER                   -> {}

\* ------------------------------------------------------------------------
\* load_sales_data: the file is missing, zero bytes long ("empty"),
\* unreadable as CSV ("corrupt"), or holds a header and rows ("ok").

\* Mutant: no os.path.exists check, a missing file reads as an empty one.
load_sales_data_NoExistsCheck(status, table) ==
  LET attempt == <<Info("Attempting to load sales data")>>
  IN  CASE status \in {"missing", "empty"} ->
             [raised |-> NA, df |-> EmptyDataFrame,
              log |-> attempt \o <<Warning("The CSV file is empty")>>]
        [] status = "corrupt" ->
             [raised |-> "ParserError", df |-> EmptyDataFrame,
              log |-> attempt \o <<Error("An unexpected error occurred while reading")>>]
        [] OTHER ->
             [raised |-> NA, df |-> table,
              log |-> attempt \o <<Info("Successfully loaded records")>>]

load_sales_data(status, table) ==
  LET attempt == <<Info("Attempting to load sales data")>>
  IN  CASE status = "missing" ->
             [raised |-> "FileNotFoundError", df |-> EmptyDataFrame,
              log |-> attempt \o <<Error("Sales data file not found")>>]
        [] status = "empty" ->
             [raised |-> NA, df |-> EmptyDataFrame,
              log |-> attempt \o <<Warning("The CSV file is empty")>>]
        [] status = "corrupt" ->
             [raised |-> "ParserError", df |-> EmptyDataFrame,
              log |-> attempt \o <<Error("An unexpected error occurred while reading")>>]
        [] OTHER ->
             [raised |-> NA, df |-> table,
              log |-> attempt \o <<Info("Successfully loaded records")>>]

\* ------------------------------------------------------------------------
\* save_reports_to_excel

NoFile == [exists |-> FALSE, sheets |-> <<>>]

PlaceholderSheet ==
  [sheet_name |-> "No Data",
   data |-> <<[Message |-> "No data available for reports."]>>]

\* Mutant: no placeholder, an empty report set writes no sheet.
SheetsOf_NoPlaceholder(reports) ==
  [k \in 1..Len(reports) |-> [sheet_name |-> reports[k].name, data |-> reports[k]]]

\* Lines 138-145: the sheets written inside the ExcelWriter block.
SheetsOf(reports) ==
  IF reports = <<>> THEN <<PlaceholderSheet>>
  ELSE [k \in 1..Len(reports) |-> [sheet_name |-> reports[k].name, data |-> reports[k]]]

\* The call's result when the writer succeeds (writable) or fails.
save_reports_to_excel(reports, writable) ==
  LET attempt == <<Info("Attempting to save reports")>>
      sheetlog ==
        IF reports = <<>>
        THEN <<Warning("No reports to save. Creating an empty Excel file.")>>
        ELSE [k \in 1..Len(reports) |-> Info("Sheet saved to Excel")]
  IN  IF writable
      THEN [raised |-> NA,
            file |-> [exists |-> TRUE, sheets |-> SheetsOf(reports)],
            log |-> attempt \o sheetlog \o <<Info("Successfully saved all reports")>>]
      ELSE [raised |-> "PermissionError", file |-> NoFile,
            log |-> attempt \o <<Error("Error saving reports to Excel file")>>]

\* ------------------------------------------------------------------------
\* generate_sales_report

\* Mutant: the handler without its last clause, except Exception.
ExceptClause_NoCatchAll(e) ==
  IF "FileNotFoundError" \in Bases(e) THEN "Automation failed"
  ELSE IF "EmptyDataError" \in Bases(e) THEN "Automation failed due to empty data file"
  ELSE NA

\* Lines 182-187: the first except clause that matches e, as its log record;
\* NA when none matches and the exception leaves the function.
ExceptClause(e) ==
  IF "FileNotFoundError" \in Bases(e) THEN "Automation failed"
  ELSE IF "EmptyDataError" \in Bases(e) THEN "Automation failed due to empty data file"
  ELSE IF "Exception" \in Bases(e) THEN "An unhandled error occurred during automation"
  ELSE NA

VARIABLES
  fileStatus,     \* the source path: "missing", "empty", "corrupt" or "ok"
  fileTable,      \* the rows of the source file when it is "ok"
  pc,             \* position in generate_sales_report
  raw_df,         \* line 159
  processed_df,   \* line 170
  aggregated_reports, \* line 173
  exc,            \* the exception in flight, NA when none
  calls,          \* the pipeline functions called so far, in order
  log,            \* the log records emitted so far
  fsOps,          \* operations done on the output directory
  outFile,        \* the report file in the output directory
  outcome         \* "running", "returned" or "propagated"

vars == <<fileStatus, fileTable, pc, raw_df, processed_df, aggregated_reports,
          exc, calls, log, fsOps, outFile, outcome>>

\* Cells of the source file, per column.
CellValues ==
  [TransactionID |-> {"T1", "T2", NA},
   Date          |-> {"2024-01-01", "bad-date"},
   Quantity      |-> {"3", "abc"},
   TotalPrice    |-> {"2", "abc"},
   ProductName   |-> {"A", "B"},
   Category      |-> {"A", NA},
   Region        |-> {"B", NA}]

AllColumns == DOMAIN CellValues

AllRows ==
  [TransactionID : CellValues.TransactionID, Date : CellValues.Date,
   Quantity : CellValues.Quantity, TotalPrice : CellValues.TotalPrice,
   ProductName : CellValues.ProductName, Category : CellValues.Category,
   Region : CellValues.Region]

RowsOver(cols) == {[c \in cols |-> r[c]] : r \in AllRows}

\* What read_csv returns for a file whose header names cols and whose data
\* rows are rws: the default index 0, 1, ...
ReadCsv(cols, rws) ==
  [columns |-> cols, index |-> [k \in 1..Len(rws) |-> k - 1], rows |-> rws]

InitRun(universe) ==
  /\ \/ /\ fileStatus \in {"missing", "empty", "corrupt"}
        /\ fileTable = EmptyDataFrame
     \/ /\ fileStatus = "ok"
        /\ \E cols \in (SUBSET universe) \ {{}}, n \in 0..MaxRows :
             \E rws \in [1..n -> RowsOver(cols)] : fileTable = ReadCsv(cols, rws)
  /\ pc = "start"
  /\ raw_df = EmptyDataFrame
  /\ processed_df = EmptyDataFrame
  /\ aggregated_reports = <<>>
  /\ exc = NA
  /\ calls = <<>>
  /\ log = <<>>
  /\ fsOps = <<>>
  /\ outFile = NoFile
  /\ outcome = "running"

Init == InitRun(AllColumns)

\* The columns the Summary and the cleaning rules read, and one categorical.
CoreColumns == {"TransactionID", "Date", "Quantity", "TotalPrice", "Category"}

InitCore == InitRun(CoreColumns)

\* Lines 154-155.
Start ==
  /\ pc = "start"
  /\ pc' = "load"
  /\ log' = log \o <<Info("Logging setup complete."),
                     Info("Starting Daily Sales Report Generation Automation.")>>
  /\ UNCHANGED <<fileStatus, fileTable, raw_df, processed_df, aggregated_reports,
                 exc, calls, fsOps, outFile, outcome>>

\* Line 159.
LoadStep ==
  /\ pc = "load"
  /\ LET r == load_sales_data(fileStatus, fileTable)
     IN  /\ calls' = Append(calls, "load_sales_data")
         /\ log' = log \o r.log
         /\ raw_df' = r.df
         /\ exc' = r.raised
         /\ pc' = IF r.raised = NA THEN "loaded" ELSE "except"
  /\ UNCHANGED <<fileStatus, fileTable, processed_df, aggregated_reports,
                 fsOps, outFile, outcome>>

\* Lines 160-167: nothing loaded, the placeholder file is written.
NoDataStep ==
  /\ pc = "loaded"
  /\ IsEmpty(raw_df)
  /\ \E writable \in BOOLEAN :
       LET r == save_reports_to_excel(<<>>, writable)
       IN  /\ calls' = Append(calls, "save_reports_to_excel")
           /\ fsOps' = fsOps \o <<"makedirs">> \o (IF writable THEN <<"write">> ELSE <<>>)
           /\ outFile' = IF writable THEN r.file ELSE outFile
           /\ exc' = r.raised
           /\ log' = log \o <<Warning("No sales data loaded. Skipping report generation.")>>
                         \o r.log
                         \o (IF writable
                             THEN <<Info("Daily Sales Report Generation Automation finished (no data).")>>
                             ELSE <<>>)
           /\ pc' = IF writable THEN "done" ELSE "except"
           /\ outcome' = IF writable THEN "returned" ELSE outcome
  /\ UNCHANGED <<fileStatus, fileTable, raw_df, processed_df, aggregated_reports>>

\* Line 170.
CleanStep ==
  /\ pc = "loaded"
  /\ ~IsEmpty(raw_df)
  /\ calls' = Append(calls, "clean_and_process_data")
  /\ processed_df' = clean_and_process_data(raw_df)
  /\ log' = log \o <<Info("Starting data cleaning and processing..."),
                     Info("Data cleaning and processing complete.")>>
  /\ pc' = "cleaned"
  /\ UNCHANGED <<fileStatus, fileTable, raw_df, aggregated_reports, exc, fsOps,
                 outFile, outcome>>

\* Line 173.
AggregateStep ==
  /\ pc = "cleaned"
  /\ LET r == aggregate_sales_data(processed_df)
     IN  /\ calls' = Append(calls, "aggregate_sales_data")
         /\ aggregated_reports' = r.reports
         /\ exc' = r.raised
         /\ log' = log \o <<Info("Aggregating sales data for various reports...")>>
                       \o (IF r.raised # NA THEN <<>>
                           ELSE IF r.reports = <<>>
                           THEN <<Warning("No data to aggregate. Returning empty reports.")>>
                           ELSE <<Info("Sales data aggregation complete.")>>)
         /\ pc' = IF r.raised = NA THEN "aggregated" ELSE "except"
  /\ UNCHANGED <<fileStatus, fileTable, raw_df, processed_df, fsOps, outFile, outcome>>

\* Lines 176-180.
SaveStep ==
  /\ pc = "aggregated"
  /\ \E writable \in BOOLEAN :
       LET r == save_reports_to_excel(aggregated_reports, writable)
       IN  /\ calls' = Append(calls, "save_reports_to_excel")
           /\ fsOps' = fsOps \o <<"makedirs">> \o (IF writable THEN <<"write">> ELSE <<>>)
           /\ outFile' = IF writable THEN r.file ELSE outFile
           /\ exc' = r.raised
           /\ log' = log \o r.log
                         \o (IF writable
                             THEN <<Info("Daily Sales Report Generation Automation completed successfully.")>>
                             ELSE <<>>)
           /\ pc' = IF writable THEN "done" ELSE "except"
           /\ outcome' = IF writable THEN "returned" ELSE outcome
  /\ UNCHANGED <<fileStatus, fileTable, raw_df, processed_df, aggregated_reports>>

\* Lines 182-187.
ExceptStep ==
  /\ pc = "except"
  /\ pc' = "done"
  /\ log' = IF ExceptClause(exc) = NA THEN log ELSE Append(log, Error(ExceptClause(exc)))
  /\ outcome' = IF ExceptClause(exc) = NA THEN "propagated" ELSE "returned"
  /\ UNCHANGED <<fileStatus, fileTable, raw_df, processed_df, aggregated_reports,
                 exc, calls, fsOps, outFile>>

Next ==
  \/ Start
  \/ LoadStep
  \/ NoDataStep
  \/ CleanStep
  \/ AggregateStep
  \/ SaveStep
  \/ ExceptStep

Spec == Init /\ [][Next]_vars

\* The same program on source files over CoreColumns.
SpecCore == InitCore /\ [][Next]_vars

\* ------------------------------------------------------------------------
\* What the properties speak about, read off the source file and the run.

Called(f) == \E k \in 1..Len(calls) : calls[k] = f
Logged(rec) == \E k \in 1..Len(log) : log[k] = rec
HasReport(name) ==
  \E k \in 1..Len(aggregated_reports) : aggregated_reports[k].name = name
ReportNamed(name) ==
  aggregated_reports[CHOOSE k \in 1..Len(aggregated_reports) :
                       aggregated_reports[k].name = name]
ReportNames == [k \in 1..Len(aggregated_reports) |-> aggregated_reports[k].name]

SrcRows == 1..Len(fileTable.rows)
SrcHas(c) == c \in fileTable.columns
SrcCell(i, c) == fileTable.rows[i][c]
HasSummaryColumns ==
  {"TotalPrice", "Quantity", "TransactionID"} \subseteq fileTable.columns

\* Row i of the file has a Date that is a calendar date.
ValidDate(i) == SrcCell(i, "Date") \in DOMAIN DateLiterals
\* Row i of the file is to be in the cleaned table.
Survives(i) == SrcHas("Date") => ValidDate(i)
Survivors == {i \in SrcRows : Survives(i)}

Parseable(s) == s \in DOMAIN NumLiterals
NumberOf(s) == IF Parseable(s) THEN NumLiterals[s] ELSE 0
LabelOf(s) == IF s = NA THEN "Unknown" ELSE s

RECURSIVE SumOver(_, _)
\* The sum of column c over the rows S of the file, unparseable cells as 0.
SumOver(S, c) ==
  IF S = {} THEN 0
  ELSE LET i == CHOOSE x \in S : TRUE
       IN  NumberOf(SrcCell(i, c)) + SumOver(S \ {i}, c)

\* The positions of the cleaned table that carry the file's row i.
CleanedAt(i) ==
  {j \in 1..Len(processed_df.index) : processed_df.index[j] = i - 1}

CleanerReturned == Called("clean_and_process_data")
AggregatorCalled == Called("aggregate_sales_data")
AggregatorRaised == AggregatorCalled /\ exc = "KeyError"
AggregatorReturned == AggregatorCalled /\ exc # "KeyError"

\* A grouped report shows exactly the surviving rows: one row per label of
\* col among them, with the revenue of the surviving rows of that label.
GroupReportFromSurvivors(name, col) ==
  HasReport(name) =>
    LET t == ReportNamed(name).table
    IN  /\ {t[g].key : g \in 1..Len(t)} = {LabelOf(SrcCell(i, col)) : i \in Survivors}
        /\ \A g \in 1..Len(t) :
             t[g].revenue =
               SumOver({i \in Survivors : LabelOf(SrcCell(i, col)) = t[g].key},
                       "TotalPrice")

\* ------------------------------------------------------------------------
\* C1 as stated: for every non-empty input table with the TotalPrice,
\* Quantity and TransactionID columns, the Summary report's Total Revenue is
\* the sum of TotalPrice over the rows of the cleaned table.
C1_EveryNonEmptyInput ==
  (AggregatorCalled /\ ~IsEmpty(fileTable) /\ HasSummaryColumns) =>
    /\ HasReport("Summary")
    /\ ReportNamed("Summary").total_revenue = SumOver(Survivors, "TotalPrice")

\* C1 amended: for every input table with the TotalPrice, Quantity and
\* TransactionID columns whose cleaned table is non-empty, the Summary
\* report's Total Revenue is the sum of TotalPrice over the rows that survive
\* cleaning (dropped rows add nothing, unparseable prices add 0); when the
\* cleaning drops every row there is no Summary report.
C1_SummaryRevenue ==
  (AggregatorCalled /\ HasSummaryColumns) =>
    /\ HasReport("Summary") <=> ~IsEmpty(processed_df)
    /\ Len(processed_df.rows) = Cardinality(Survivors)
    /\ HasReport("Summary") =>
         /\ ReportNamed("Summary").total_revenue = SumOver(Survivors, "TotalPrice")
         /\ ReportNamed("Summary").total_revenue = SumColumn(processed_df, "TotalPrice")

\* A row with a price was dropped for its date and another row was kept.
C1_Witness ==
  /\ AggregatorCalled /\ HasSummaryColumns /\ SrcHas("Date")
  /\ HasReport("Summary")
  /\ \E i \in SrcRows : ~ValidDate(i) /\ Parseable(SrcCell(i, "TotalPrice"))
  /\ ReportNamed("Summary").total_revenue > 0

DroppedRowsLeaveNoTrace ==
  /\ \A i \in SrcRows : ~Survives(i) => CleanedAt(i) = {}
  /\ HasReport("Summary") =>
       /\ ReportNamed("Summary").total_revenue = SumOver(Survivors, "TotalPrice")
       /\ ReportNamed("Summary").total_quantity = SumOver(Survivors, "Quantity")
       /\ ReportNamed("Summary").num_transactions =
            Cardinality({SrcCell(i, "TransactionID") : i \in Survivors} \ {NA})
  /\ GroupReportFromSurvivors("Sales by Category", "Category")
  /\ GroupReportFromSurvivors("Sales by Region", "Region")
  /\ GroupReportFromSurvivors("Top 5 Products", "ProductName")

\* The file's row i has a valid Date and a Quantity that does not parse.
BadQuantityRow(i) ==
  /\ SrcHas("Date") /\ SrcHas("Quantity")
  /\ ValidDate(i) /\ ~Parseable(SrcCell(i, "Quantity"))

\* The cleaned cell holds the very value the file's cell holds.
SameValue(c, src, cleaned) ==
  CASE c = "Date" -> src \in DOMAIN DateLiterals /\ cleaned = DateLiterals[src]
    [] c \in {"Quantity", "UnitPrice", "TotalPrice"} ->
         Parseable(src) /\ cleaned = NumLiterals[src]
    [] OTHER -> cleaned = src

\* The cleaned cell holds the file's cell as its own column's rule leaves it.
Normalised(c, src, cleaned) ==
  CASE c \in {"Quantity", "UnitPrice", "TotalPrice"} -> cleaned = NumberOf(src)
    [] c \in {"ProductName", "Category", "Region", "SalespersonID"} ->
         cleaned = LabelOf(src)
    [] OTHER -> SameValue(c, src, cleaned)

\* C3 as stated: ... and a row with a valid Date and an unparseable Quantity
\* is kept with Quantity 0 and all its other fields unchanged.
C3_OtherFieldsUnchanged ==
  CleanerReturned =>
    /\ DroppedRowsLeaveNoTrace
    /\ \A i \in SrcRows : BadQuantityRow(i) =>
         /\ Cardinality(CleanedAt(i)) = 1
         /\ \A j \in CleanedAt(i) :
              /\ processed_df.rows[j]["Quantity"] = 0
              /\ \A c \in fileTable.columns \ {"Quantity"} :
                   SameValue(c, SrcCell(i, c), processed_df.rows[j][c])

\* C3 amended: a row whose Date does not parse is absent from the cleaned
\* table and from every report; a row with a valid Date and an unparseable
\* Quantity is kept, once, with Quantity 0, and each of its other fields is
\* as its own column's rule leaves it: an unparseable UnitPrice or TotalPrice
\* is 0 and a missing ProductName, Category, Region or SalespersonID is
\* "Unknown", every other value is unchanged.
C3_RowDroppingBoundary ==
  CleanerReturned =>
    /\ DroppedRowsLeaveNoTrace
    /\ \A i \in SrcRows : BadQuantityRow(i) =>
         /\ Cardinality(CleanedAt(i)) = 1
         /\ \A j \in CleanedAt(i) :
              /\ processed_df.rows[j]["Quantity"] = 0
              /\ \A c \in fileTable.columns \ {"Quantity"} :
                   Normalised(c, SrcCell(i, c), processed_df.rows[j][c])

\* One row dropped for its date, one kept with its Quantity made 0, and a
\* Summary built from the kept row.
C3_Witness ==
  /\ CleanerReturned /\ HasReport("Summary")
  /\ \E i \in SrcRows : SrcHas("Date") /\ ~ValidDate(i)
  /\ \E i \in SrcRows : BadQuantityRow(i) /\ CleanedAt(i) # {}

\* ------------------------------------------------------------------------
\* The grouped report of col is there, next to the Summary, shows every
\* surviving row in the group of its own label, and adds up to the Summary's
\* Total Revenue.
GroupAddsUp(name, col) ==
  /\ HasReport(name) /\ HasReport("Summary")
  /\ GroupReportFromSurvivors(name, col)
  /\ LET t == ReportNamed(name).table
     IN  /\ \A g, h \in 1..Len(t) : t[g].key = t[h].key => g = h
         /\ SumSeq([g \in 1..Len(t) |-> t[g].revenue])
              = ReportNamed("Summary").total_revenue

\* C4 as stated: for every non-empty cleaned table with a Category column
\* every row adds its TotalPrice to the one row of its category in 'Sales by
\* Category', whose revenues add up to the Summary's Total Revenue; the same
\* for 'Sales by Region' and Region.
C4_GroupSumsEqualSummary ==
  (AggregatorCalled /\ ~IsEmpty(processed_df) /\ SrcHas("TotalPrice")) =>
    /\ SrcHas("Category") => GroupAddsUp("Sales by Category", "Category")
    /\ SrcHas("Region") => GroupAddsUp("Sales by Region", "Region")

\* The same on the runs in which the aggregator returns (Quantity and
\* TransactionID are there too).
GroupSumsWhenAggregatorReturns ==
  (AggregatorReturned /\ ~IsEmpty(processed_df)) =>
    /\ SrcHas("Category") => GroupAddsUp("Sales by Category", "Category")
    /\ SrcHas("Region") => GroupAddsUp("Sales by Region", "Region")

\* ------------------------------------------------------------------------
\* C5 as stated: the Cleaner and the Aggregator never raise, whatever
\* columns the table has.
C5_CleanerAggregatorNeverFail ==
  (calls # <<>> /\ calls[Len(calls)] \in {"clean_and_process_data",
                                          "aggregate_sales_data"})
    => exc = NA

\* ------------------------------------------------------------------------
\* C6: when the source path does not exist the run logs the not-found error
\* and returns; only the Loader is ever called, the output directory is not
\* touched and no output file exists.
C6_MissingSource ==
  fileStatus = "missing" =>
    /\ outFile = NoFile
    /\ fsOps = <<>>
    /\ \A k \in 1..Len(calls) : calls[k] = "load_sales_data"
    /\ outcome # "propagated"
    /\ pc = "done" =>
         /\ outcome = "returned"
         /\ calls = <<"load_sales_data">>
         /\ Logged(Error("Sales data file not found"))
         /\ log[Len(log)] = Error("Automation failed")

C6_Witness ==
  fileStatus = "missing" /\ pc = "done" /\ exc = "FileNotFoundError"

\* ------------------------------------------------------------------------
\* The source file exists and has no data row: a header only, or nothing.
HeaderOnly == fileStatus = "ok" /\ Len(fileTable.rows) = 0
NoDataRows == fileStatus = "empty" \/ HeaderOnly

\* The output file holds one sheet, the placeholder, with a single row.
PlaceholderOnly ==
  /\ Len(outFile.sheets) = 1
  /\ outFile.sheets[1].sheet_name = "No Data"
  /\ Len(outFile.sheets[1].data) = 1

\* C7 as stated: with a header-only (or empty) source file the Cleaner and
\* the Aggregator receive an empty table, the output file holds exactly the
\* placeholder sheet with its single row, and no exception leaves
\* generate_sales_report.
C7_CleanerAggregatorReceiveEmpty ==
  (NoDataRows /\ pc = "done" /\ outFile.exists) =>
    /\ Called("clean_and_process_data") /\ IsEmpty(processed_df)
    /\ Called("aggregate_sales_data")
    /\ PlaceholderOnly
    /\ outcome = "returned"

\* C7 amended: with a header-only (or empty) source file the Cleaner and the
\* Aggregator are not called: the workflow passes an empty report set
\* straight to the Exporter; the output file, once written, holds exactly the
\* placeholder sheet with its single row, and no exception leaves
\* generate_sales_report.
C7_HeaderOnlyPlaceholder ==
  NoDataRows =>
    /\ ~Called("clean_and_process_data") /\ ~Called("aggregate_sales_data")
    /\ aggregated_reports = <<>>
    /\ outcome # "propagated"
    /\ outFile.exists => PlaceholderOnly
    /\ pc = "done" =>
         /\ outcome = "returned"
         /\ calls = <<"load_sales_data", "save_reports_to_excel">>
         /\ outFile.exists <=> exc = NA
         /\ outFile.exists =>
              Logged(Info("Daily Sales Report Generation Automation finished (no data)."))

C7_Witness == HeaderOnly /\ pc = "done" /\ outFile.exists /\ PlaceholderOnly

\* ------------------------------------------------------------------------
\* The report names the claim gives a non-empty cleaned table, in order.
ExpectedReportNames ==
  <<"Summary">>
    \o (IF SrcHas("Category") THEN <<"Sales by Category">> ELSE <<>>)
    \o (IF SrcHas("Region") THEN <<"Sales by Region">> ELSE <<>>)
    \o (IF SrcHas("ProductName") /\ SrcHas("TotalPrice")
        THEN <<"Top 5 Products">> ELSE <<>>)

\* C8 as stated: for every non-empty cleaned table the report set holds the
\* Summary, 'Sales by Category' iff Category is present, 'Sales by Region' iff
\* Region is present and 'Top 5 Products' iff ProductName and TotalPrice are
\* present, in this order.
C8_ReportPresence ==
  (AggregatorCalled /\ ~IsEmpty(processed_df)) => ReportNames = ExpectedReportNames

\* The same on the runs in which the aggregator returns.
ReportPresenceWhenAggregatorReturns ==
  (AggregatorReturned /\ ~IsEmpty(processed_df)) => ReportNames = ExpectedReportNames

\* ------------------------------------------------------------------------
SuccessRecord ==
  Info("Daily Sales Report Generation Automation completed successfully.")

\* C9: no exception leaves generate_sales_report: whatever a stage raises,
\* the run ends returned with the failure logged as its last record; and the
\* 'completed successfully' record is logged only after load, clean,
\* aggregate and export succeeded in that order.
C9_RecoveryBoundary ==
  /\ outcome # "propagated"
  /\ pc = "done" =>
       /\ outcome = "returned"
       /\ exc # NA =>
            /\ log[Len(log)].level = "ERROR"
            /\ log[Len(log)].msg \in
                 {"Automation failed", "Automation failed due to empty data file",
                  "An unhandled error occurred during automation"}
            /\ ~Logged(SuccessRecord)
  /\ Logged(SuccessRecord) =>
       /\ calls = <<"load_sales_data", "clean_and_process_data",
                    "aggregate_sales_data", "save_reports_to_excel">>
       /\ exc = NA
       /\ outFile.exists
       /\ pc = "done"

\* The aggregator's KeyError ended at the boundary.
C9_Witness ==
  pc = "done" /\ exc = "KeyError" /\ outcome = "returned"

\* ------------------------------------------------------------------------
Min(a, b) == IF a < b THEN a ELSE b

\* The revenue of a product over the surviving rows.
ProductRevenue(label) ==
  SumOver({i \in Survivors : LabelOf(SrcCell(i, "ProductName")) = label}, "TotalPrice")

\* The 'Top 5 Products' report is there and ranks the products.
TopProductsRanked ==
  /\ HasReport("Top 5 Products")
  /\ LET t == ReportNamed("Top 5 Products").table
         products == {LabelOf(SrcCell(i, "ProductName")) : i \in Survivors}
         shown == {t[g].key : g \in 1..Len(t)}
     IN  /\ Len(t) = Min(HeadN, Cardinality(products))
         /\ shown \subseteq products
         /\ \A g, h \in 1..Len(t) : t[g].key = t[h].key => g = h
         /\ \A g \in 1..Len(t) : t[g].revenue = ProductRevenue(t[g].key)
         /\ \A g \in 1..Len(t) - 1 : t[g].revenue >= t[g + 1].revenue
         /\ \A q \in products \ shown :
              \A g \in 1..Len(t) : ProductRevenue(q) <= t[g].revenue

\* C10 as stated: for every non-empty cleaned table with the ProductName and
\* TotalPrice columns, 'Top 5 Products' has min(5, number of products) rows,
\* one per product with its summed TotalPrice, in non-increasing order, and no
\* product left out has more revenue than one that is in.
C10_TopProducts ==
  (AggregatorCalled /\ ~IsEmpty(processed_df)
     /\ SrcHas("ProductName") /\ SrcHas("TotalPrice")) => TopProductsRanked

\* The same on the runs in which the aggregator returns.
TopProductsWhenAggregatorReturns ==
  (AggregatorReturned /\ ~IsEmpty(processed_df) /\ SrcHas("ProductName"))
    => TopProductsRanked

=============================================================================
